---------------------------- MODULE Spec2Model ----------------------------
(***************************************************************************)
(* Chat Room 43: the length-prefixed framing, the JSON envelope, the       *)
(* server's select loop with its broadcast, and the clients' readers.      *)
(*                                                                         *)
(* Text is a sequence of code points, a byte string a sequence of numbers  *)
(* 0..255.  JSON text keeps json's structure (object, string with escapes, *)
(* integer, null) with every key literal written as one code point and    *)
(* ':' and ',' left out; a \uXXXX escape is written as '\', 'u' and one    *)
(* code point.  The server runs under Python 3 (bytes(msg, 'utf8')), the   *)
(* clients under Python 2 (str is a byte string).                          *)
(***************************************************************************)
EXTENDS Integers, Sequences, FiniteSets, TLC

\* ------------------------------------------------------------------ bounds
\* Client sockets the server accepts in one run.
MaxClients == 3
\* Cut points used to split a wire image into chunks.
MaxCuts == 2
\* Sockets a client object makes in one run.
MaxSockets == 3

\* --------------------------------------------------------------- constants
RECV_BUFFER == 4096
RECV_MSG_LEN_PREFIX == 4

\* Code points of the JSON punctuation.
Ch == [lbrace |-> 123, rbrace |-> 125, quote |-> 34, bslash |-> 92,
       u |-> 117, null |-> 110, zero |-> 48]

\* The one code point that stands for each key literal.
K == [uuid |-> 105, username |-> 85, type |-> 116, body |-> 98,
      command |-> 99, action |-> 97, primarykey |-> 112, secondarykey |-> 115,
      msgcommand |-> 109, newstatusstr |-> 119, newstatusid |-> 100]

KeyChars == {K[f] : f \in DOMAIN K}

Min(a, b) == IF a < b THEN a ELSE b

\* ------------------------------------------------------------------- bytes
\* struct.pack('>I', n), n < 2^32.
Pack32(n) ==
    << (n \div 16777216) % 256, (n \div 65536) % 256, (n \div 256) % 256, n % 256 >>

\* struct.unpack('>I', b)[0] of a 4-byte string.  A value of 2^31 or more
\* is given as 2^31 - 1: it is only ever compared with the length of what
\* has been read, which is far below both.
Unpack32(b) ==
    IF b[1] >= 128 THEN 2147483647
    ELSE b[1] * 16777216 + b[2] * 65536 + b[3] * 256 + b[4]

\* str.encode('utf-8'): one byte below 128, two bytes below 2048.
RECURSIVE Utf8Encode(_)
Utf8Encode(s) ==
    IF s = << >> THEN << >>
    ELSE LET c == Head(s)
         IN  (IF c < 128 THEN << c >>
              ELSE << 192 + (c \div 64), 128 + (c % 64) >>) \o Utf8Encode(Tail(s))

\* bytes.decode('utf-8'): ok = FALSE is UnicodeDecodeError.
RECURSIVE Utf8Walk(_, _)
Utf8Walk(b, acc) ==
    IF b = << >> THEN [ok |-> TRUE, s |-> acc]
    ELSE LET c == Head(b)
         IN  IF c < 128 THEN Utf8Walk(Tail(b), Append(acc, c))
             ELSE IF /\ c >= 194 /\ c <= 223 /\ Len(b) >= 2
                     /\ b[2] >= 128 /\ b[2] <= 191
                  THEN Utf8Walk(SubSeq(b, 3, Len(b)),
                                Append(acc, (c - 192) * 64 + (b[2] - 128)))
                  ELSE [ok |-> FALSE, s |-> << >>]

Utf8Decode(b) == Utf8Walk(b, << >>)

\* -------------------------------------------------------------------- JSON
\* A JSON scalar: null, an integer 0..9, or a string.
JNull == [t |-> "null", v |-> << >>]
JInt(n) == [t |-> "int", v |-> << n >>]
JStr(s) == [t |-> "str", v |-> s]

\* The body of a JSON string literal (json.dumps, ensure_ascii=True).
RECURSIVE EscapeChars(_)
EscapeChars(s) ==
    IF s = << >> THEN << >>
    ELSE LET c == Head(s)
         IN  (IF c = Ch.quote \/ c = Ch.bslash THEN << Ch.bslash, c >>
              ELSE IF c >= 128 THEN << Ch.bslash, Ch.u, c - 128 >>
              ELSE << c >>) \o EscapeChars(Tail(s))

DumpValue(x) ==
    IF x.t = "null" THEN << Ch.null >>
    ELSE IF x.t = "int" THEN << Ch.zero + x.v[1] >>
    ELSE << Ch.quote >> \o EscapeChars(x.v) \o << Ch.quote >>

\* json.dumps of a dict given as the sequence of its (key, value) pairs.
RECURSIVE DumpMembers(_)
DumpMembers(kv) ==
    IF kv = << >> THEN << >>
    ELSE << Head(kv)[1] >> \o DumpValue(Head(kv)[2]) \o DumpMembers(Tail(kv))

JsonDumps(kv) == << Ch.lbrace >> \o DumpMembers(kv) \o << Ch.rbrace >>

\* The rest of a string literal from position i: [ok, val, next].
RECURSIVE ParseString(_, _, _)
ParseString(t, i, acc) ==
    IF i > Len(t) THEN [ok |-> FALSE, val |-> JNull, next |-> i]
    ELSE IF t[i] = Ch.quote THEN [ok |-> TRUE, val |-> JStr(acc), next |-> i + 1]
    ELSE IF t[i] = Ch.bslash
         THEN IF i + 1 > Len(t) THEN [ok |-> FALSE, val |-> JNull, next |-> i]
              ELSE IF t[i + 1] = Ch.u
                   THEN IF i + 2 > Len(t)
                        THEN [ok |-> FALSE, val |-> JNull, next |-> i]
                        ELSE ParseString(t, i + 3, Append(acc, t[i + 2] + 128))
                   ELSE IF t[i + 1] = Ch.quote \/ t[i + 1] = Ch.bslash
                        THEN ParseString(t, i + 2, Append(acc, t[i + 1]))
                        ELSE [ok |-> FALSE, val |-> JNull, next |-> i]
    ELSE ParseString(t, i + 1, Append(acc, t[i]))

ParseValue(t, i) ==
    IF i > Len(t) THEN [ok |-> FALSE, val |-> JNull, next |-> i]
    ELSE IF t[i] = Ch.null THEN [ok |-> TRUE, val |-> JNull, next |-> i + 1]
    ELSE IF t[i] >= Ch.zero /\ t[i] <= Ch.zero + 9
         THEN [ok |-> TRUE, val |-> JInt(t[i] - Ch.zero), next |-> i + 1]
    ELSE IF t[i] = Ch.quote THEN ParseString(t, i + 1, << >>)
    ELSE [ok |-> FALSE, val |-> JNull, next |-> i]

\* The members of an object from position i, up to and including '}'.
RECURSIVE ParseMembers(_, _, _)
ParseMembers(t, i, acc) ==
    IF i > Len(t) THEN [ok |-> FALSE, obj |-> acc, next |-> i]
    ELSE IF t[i] = Ch.rbrace THEN [ok |-> TRUE, obj |-> acc, next |-> i + 1]
    ELSE IF t[i] \in KeyChars
         THEN LET pv == ParseValue(t, i + 1)
              IN  IF ~pv.ok THEN [ok |-> FALSE, obj |-> acc, next |-> i]
                  ELSE ParseMembers(t, pv.next,
                         [k \in DOMAIN acc \cup {t[i]} |->
                             IF k = t[i] THEN pv.val ELSE acc[k]])
    ELSE [ok |-> FALSE, obj |-> acc, next |-> i]

EmptyObj == [k \in {} |-> JNull]

\* json.loads: ok = FALSE is ValueError; kind "obj" is a dict, "scalar" any
\* other JSON value.  Text after the value is "Extra data", a ValueError.
JsonLoads(t) ==
    IF t = << >> THEN [ok |-> FALSE, kind |-> "none", obj |-> EmptyObj, val |-> JNull]
    ELSE IF t[1] = Ch.lbrace
         THEN LET pm == ParseMembers(t, 2, EmptyObj)
              IN  IF pm.ok /\ pm.next = Len(t) + 1
                  THEN [ok |-> TRUE, kind |-> "obj", obj |-> pm.obj, val |-> JNull]
                  ELSE [ok |-> FALSE, kind |-> "none", obj |-> EmptyObj, val |-> JNull]
         ELSE LET pv == ParseValue(t, 1)
              IN  IF pv.ok /\ pv.next = Len(t) + 1
                  THEN [ok |-> TRUE, kind |-> "scalar", obj |-> EmptyObj, val |-> pv.val]
                  ELSE [ok |-> FALSE, kind |-> "none", obj |-> EmptyObj, val |-> JNull]


\* -------------------------------------------------------------------- wire
\* What a socket will deliver: the chunks still to arrive, each returned by
\* its own recv call(s), and what follows them: "eof" (the peer closed: recv
\* returns the empty string), "err" (recv raises socket.error) or "open"
\* (the peer is silent: recv blocks).
Wire(chunks, end) == [chunks |-> chunks, end |-> end]

\* sock.recv(n): at most n bytes of what has arrived.
Recv(w, n) ==
    IF w.chunks = << >>
    THEN [kind |-> w.end, data |-> << >>, w |-> w]
    ELSE LET c == Head(w.chunks)
             k == Min(n, Len(c))
         IN  [kind |-> "data",
              data |-> SubSeq(c, 1, k),
              w    |-> [w EXCEPT !.chunks =
                          IF k = Len(c) THEN Tail(w.chunks)
                          ELSE << SubSeq(c, k + 1, Len(c)) >> \o Tail(w.chunks)]]

NoFrame(st, w) == [st |-> st, msg_len |-> << >>, data |-> << >>, w |-> w]

\* while msg_total_length < 4: msg_len = recv(4); msg_total_length += len(msg_len)
\* An empty recv at end of stream leaves the loop's state as it was: the loop
\* never ends ("hang").
RECURSIVE PrefixLoop(_, _, _)
PrefixLoop(w, msg_total_length, msg_len) ==
    IF msg_total_length >= RECV_MSG_LEN_PREFIX
    THEN [st |-> "prefix", msg_len |-> msg_len, data |-> << >>, w |-> w]
    ELSE LET r == Recv(w, RECV_MSG_LEN_PREFIX)
         IN  IF r.kind = "eof" THEN NoFrame("hang", w)
             ELSE IF r.kind = "err" THEN NoFrame("sockerr", w)
             ELSE IF r.kind = "open" THEN NoFrame("blocked", w)
             ELSE PrefixLoop(r.w, msg_total_length + Len(r.data), r.data)

\* while msg_data_length_total < msg_len: msg_chunk = recv(RECV_BUFFER); ...
\* st "none" is the break with data = None.
RECURSIVE PayloadLoop(_, _, _)
PayloadLoop(w, msg_len, data) ==
    IF Len(data) >= msg_len
    THEN [st |-> "frame", msg_len |-> << >>, data |-> data, w |-> w]
    ELSE LET r == Recv(w, RECV_BUFFER)
         IN  IF r.kind = "eof" THEN NoFrame("none", w)
             ELSE IF r.kind = "err" THEN NoFrame("sockerr", w)
             ELSE IF r.kind = "open" THEN NoFrame("blocked", w)
             ELSE PayloadLoop(r.w, msg_len, data \o r.data)

\* The frame reading the three readers share: the prefix loop, struct.unpack
\* (struct.error unless the last recv of the prefix loop returned 4 bytes),
\* the payload loop.
ReadFrame(w) ==
    LET p == PrefixLoop(w, 0, << >>)
    IN  IF p.st # "prefix" THEN p
        ELSE IF Len(p.msg_len) # RECV_MSG_LEN_PREFIX THEN NoFrame("structerr", p.w)
        ELSE PayloadLoop(p.w, Unpack32(p.msg_len), << >>)

\* ChatServer.__receivemsg: st "data" returns the text; "attrerr"
\* (None.decode), "unicodeerr" and "structerr" are exceptions that are not
\* socket.error; "sockerr" is socket.error; "hang" and "blocked" never return.
ServerReceivemsg(w) ==
    LET f == ReadFrame(w)
    IN  IF f.st = "none" THEN [st |-> "attrerr", data |-> << >>, w |-> f.w]
        ELSE IF f.st = "frame"
             THEN LET d == Utf8Decode(f.data)
                  IN  IF d.ok THEN [st |-> "data", data |-> d.s, w |-> f.w]
                      ELSE [st |-> "unicodeerr", data |-> << >>, w |-> f.w]
        ELSE [st |-> f.st, data |-> << >>, w |-> f.w]

\* ChatServer.__sendmsg: the prefix is len(str(msg)), the payload its UTF-8.
ServerSendmsg(msg) == Pack32(Len(msg)) \o Utf8Encode(msg)

FramePrefix(frame) == Unpack32(SubSeq(frame, 1, 4))
FramePayload(frame) == SubSeq(frame, 5, Len(frame))

\* ----------------------------------------------------------------- literals
\* "System", "Server", "usrmsg", "svcmsg", "ursmsg", "Away".
SystemStr == << 83, 121, 115, 116, 101, 109 >>
ServerStr == << 83, 101, 114, 118, 101, 114 >>
UsrMsg == << 117, 115, 114, 109, 115, 103 >>
SvcMsg == << 115, 118, 99, 109, 115, 103 >>
UrsMsg == << 117, 114, 115, 109, 115, 103 >>
AwayStr == << 65, 119, 97, 121 >>
\* The clients' three notices, each cut to its first word: "No", "Invalid",
\* "Incomplete".
NoDataStr == << 78, 111 >>
InvalidStr == << 73, 110, 118, 97, 108, 105, 100 >>
IncompleteStr == << 73, 110, 99, 111, 109, 112, 108, 101, 116, 101 >>

\* ------------------------------------------------------ GUI client (Jython)
\* The dict ChatClientBase.sendmsg dumps; m.uuid is the uuid4 it draws.
ClientJStruct(m) ==
    << << K.uuid, m.uuid >>, << K.username, m.username >>, << K.type, m.type >>,
       << K.body, m.body >>, << K.command, m.command >>, << K.action, m.action >>,
       << K.primarykey, m.primarykey >>, << K.secondarykey, m.secondarykey >> >>

\* ChatClientBase.sendmsg: snd_msg.
ClientJSendmsg(m) ==
    LET struct_msg == JsonDumps(ClientJStruct(m))
    IN  Pack32(Len(struct_msg)) \o Utf8Encode(struct_msg)

\* msg_dict as dict.fromkeys(...) makes it.
ClientJDefaults ==
    [k \in {K.username, K.body, K.type, K.command, K.action, K.primarykey,
            K.secondarykey} |-> JNull]

\* The tuple with the body taken from the sender's entry.
ClientJTupleBodyFromName(ret_code, d) ==
    [ret_code |-> ret_code, username |-> d[K.username], body |-> d[K.username],
     type |-> d[K.type], command |-> d[K.command], action |-> d[K.action],
     primarykey |-> d[K.primarykey], secondarykey |-> d[K.secondarykey]]

\* The tuple ChatClientBase.receivemsg returns.
ClientJTuple(ret_code, d) ==
    [ret_code |-> ret_code, username |-> d[K.username], body |-> d[K.body],
     type |-> d[K.type], command |-> d[K.command], action |-> d[K.action],
     primarykey |-> d[K.primarykey], secondarykey |-> d[K.secondarykey]]

ClientJNotice(ret_code, body) ==
    ClientJTuple(ret_code,
        [ClientJDefaults EXCEPT ![K.username] = JStr(SystemStr), ![K.body] = JStr(body)])

NoTuple == ClientJTuple(0, ClientJDefaults)

\* ChatClientBase.receivemsg: st "return" carries the tuple; "structerr" and
\* "typeerr" (dict.update of a number or of null) and "sockerr" are raised;
\* "hang" and "blocked" never return.
ClientJReceivemsg(w) ==
    LET f == ReadFrame(w)
    IN  IF f.st \notin {"frame", "none"} THEN [st |-> f.st, ret |-> NoTuple, w |-> f.w]
        ELSE IF f.st = "none" \/ f.data = << >>
             THEN [st |-> "return", ret |-> ClientJNotice(3, NoDataStr), w |-> f.w]
        ELSE LET d == Utf8Decode(f.data)
                 j == IF d.ok THEN JsonLoads(d.s) ELSE JsonLoads(<< >>)
             IN  IF ~j.ok
                 THEN [st |-> "return", ret |-> ClientJNotice(1, InvalidStr), w |-> f.w]
                 ELSE IF j.kind = "obj"
                      THEN [st |-> "return",
                            ret |-> ClientJTuple(0,
                                [k \in DOMAIN ClientJDefaults \cup DOMAIN j.obj |->
                                    IF k \in DOMAIN j.obj THEN j.obj[k]
                                    ELSE ClientJDefaults[k]]),
                            w |-> f.w]
                 ELSE IF j.val.t = "str"
                      THEN IF j.val.v = << >>
                           THEN [st |-> "return", ret |-> NoTuple, w |-> f.w]
                           ELSE [st |-> "return", ret |-> ClientJNotice(1, InvalidStr),
                                 w |-> f.w]
                 ELSE [st |-> "typeerr", ret |-> NoTuple, w |-> f.w]

\* ------------------------------------------------------- CLI client
\* ChatClient.__sendmsg: snd_msg (a Python 2 str: the text is its own bytes).
ClientSendmsg(uuid, username, msg, msgtype) ==
    LET struct_msg == JsonDumps(<< << K.uuid, uuid >>, << K.username, username >>,
                                   << K.type, msgtype >>, << K.body, msg >> >>)
    IN  Pack32(Len(struct_msg)) \o struct_msg

IsAscii(x) == x.t # "str" \/ \A i \in 1..Len(x.v) : x.v[i] < 128

\* ChatClient.__receivemsg: (ret_code, ret_data); ret_data of a good message
\* is the formatted line, kept as its username and body.
ClientRet(ret_code, username, body) ==
    [ret_code |-> ret_code, username |-> username, body |-> body]

ClientReceivemsg(w) ==
    LET f == ReadFrame(w)
        no == ClientRet(0, JNull, JNull)
    IN  IF f.st \notin {"frame", "none"} THEN [st |-> f.st, ret |-> no, w |-> f.w]
        ELSE IF f.st = "none" \/ f.data = << >>
             THEN [st |-> "return", ret |-> ClientRet(3, JNull, JStr(NoDataStr)), w |-> f.w]
        ELSE LET d == Utf8Decode(f.data)
                 j == IF d.ok THEN JsonLoads(d.s) ELSE JsonLoads(<< >>)
             IN  IF ~j.ok
                 THEN [st |-> "return", ret |-> ClientRet(1, JNull, JStr(InvalidStr)),
                       w |-> f.w]
                 ELSE IF j.kind # "obj"
                      THEN [st |-> "typeerr", ret |-> no, w |-> f.w]
                 ELSE IF K.username \notin DOMAIN j.obj \/ K.body \notin DOMAIN j.obj
                      THEN [st |-> "return",
                            ret |-> ClientRet(2, JNull, JStr(IncompleteStr)), w |-> f.w]
                 ELSE IF ~IsAscii(j.obj[K.username]) \/ ~IsAscii(j.obj[K.body])
                      THEN [st |-> "return", ret |-> ClientRet(1, JNull, JStr(InvalidStr)),
                            w |-> f.w]
                 ELSE [st |-> "return",
                       ret |-> ClientRet(0, j.obj[K.username], j.obj[K.body]), w |-> f.w]

\* ------------------------------------------------------------------ inputs
\* What peers put on the wire.  A GUI-client message: the arguments of
\* sendmsg and the uuid it draws.
Msg(uuid, username, type, body, command, primarykey) ==
    [uuid |-> JStr(uuid), username |-> JStr(username), type |-> type, body |-> body,
     command |-> command, action |-> JNull, primarykey |-> primarykey,
     secondarykey |-> JNull]

NoMsg == Msg(<< >>, << >>, JNull, JNull, JNull, JNull)

Uuids == {<< 120 >>, << 121 >>}
NameA == << 97 >>

\* _action_send_button, _action_status_combo, stop_session.
ClientJMsgs ==
    UNION {{Msg(i, NameA, JInt(0), JStr(<< 104 >>), JNull, JNull),
            Msg(i, NameA, JInt(0), JStr(<< 233, 34 >>), JNull, JNull),
            Msg(i, << 233 >>, JInt(0), JStr(<< >>), JNull, JNull),
            Msg(i, NameA, JInt(1), JNull, JInt(0), JInt(1)),
            Msg(i, NameA, JInt(1), JNull, JInt(9), JNull)} : i \in Uuids}

\* A correct frame around a payload text, as any peer may write it.
PeerFrame(text) == Pack32(Len(Utf8Encode(text))) \o Utf8Encode(text)

\* Payload texts of third-party peers: a user message whose body is a raw
\* (unescaped) non-ASCII character, a text that is not JSON, a JSON number,
\* objects that lack 'type', 'body' or 'username'.
RawUsrText ==
    << Ch.lbrace, K.username, Ch.quote, 97, Ch.quote, K.type, Ch.quote >> \o UsrMsg
       \o << Ch.quote, K.body, Ch.quote, 233, Ch.quote, Ch.rbrace >>
BadJsonText == << Ch.lbrace, K.type >>
NumberText == << Ch.zero + 5 >>
NoTypeText == << Ch.lbrace, K.username, Ch.quote, 97, Ch.quote, K.body, Ch.quote, 104,
                 Ch.quote, Ch.rbrace >>
NoBodyText == << Ch.lbrace, K.username, Ch.quote, 97, Ch.quote, K.type, Ch.quote >>
                 \o SvcMsg \o << Ch.quote, Ch.rbrace >>
NoUserText == << Ch.lbrace, K.type, Ch.quote >> \o SvcMsg
                 \o << Ch.quote, K.body, Ch.zero + 6, Ch.rbrace >>

F(enc, m, frame) == [enc |-> enc, m |-> m, frame |-> frame]

ClientJFrames == {F("clientj", m, ClientJSendmsg(m)) : m \in ClientJMsgs}

\* msgexchange sends the typed line as a user message, stop sends body 1.
ClientFrames ==
    {F("client", NoMsg, ClientSendmsg(JStr(<< 120 >>), JStr(NameA), JStr(<< 104 >>),
                                      JStr(UsrMsg))),
     F("client", NoMsg, ClientSendmsg(JStr(<< 120 >>), JStr(NameA), JInt(1),
                                      JStr(SvcMsg)))}

PeerFrames ==
    {F("peer", NoMsg, PeerFrame(t)) :
        t \in {RawUsrText, BadJsonText, NumberText, NoTypeText, NoUserText}}

\* The frame of a payload that is not JSON.
BadJsonFrame == F("peer", NoMsg, PeerFrame(BadJsonText))

CodecFrames == ClientJFrames \cup ClientFrames \cup PeerFrames

\* The frames used where two are queued.
QueueFrames ==
    ClientFrames \cup {F("peer", NoMsg, PeerFrame(t)) : t \in {RawUsrText, NumberText}}
        \cup {F("clientj", m, ClientJSendmsg(m)) :
                m \in {Msg(<< 120 >>, NameA, JInt(0), JStr(<< 104 >>), JNull, JNull)}}

\* The sets of at most k cut points in a wire image of n bytes.
RECURSIVE CutSets(_, _)
CutSets(n, k) ==
    IF k = 0 THEN {{}}
    ELSE LET prev == CutSets(n, k - 1)
         IN  prev \cup {c \cup {a} : c \in prev, a \in 1..(n - 1)}

\* The bytes b delivered as chunks that end at the cut points.
RECURSIVE SplitAt(_, _, _, _)
SplitAt(b, cuts, i, cur) ==
    IF i > Len(b) THEN (IF cur = << >> THEN << >> ELSE << cur >>)
    ELSE IF i \in cuts THEN << Append(cur, b[i]) >> \o SplitAt(b, cuts, i + 1, << >>)
    ELSE SplitAt(b, cuts, i + 1, Append(cur, b[i]))

RECURSIVE Concat(_)
Concat(fs) == IF fs = << >> THEN << >> ELSE Head(fs).frame \o Concat(Tail(fs))

\* A scenario: the frames a peer sends, how many of their bytes arrive, how
\* they are cut into chunks and what follows them.
Scenario(kind, frames, cuts, keep, end) ==
    [kind |-> kind, frames |-> frames, cuts |-> cuts, keep |-> keep, end |-> end]

WireOf(sc) ==
    Wire(SplitAt(SubSeq(Concat(sc.frames), 1, sc.keep), sc.cuts, 1, << >>), sc.end)

NoScenario == Scenario("none", << >>, {}, 0, "open")

\* ------------------------------------------------------------------ server
VARIABLES
    connections,     \* self.connections: the listening socket and the clients
    ready,           \* what is left of ready_to_read in this iteration
    pc,              \* "select", "dispatch"; "dead": an exception ended the
                     \* thread; "hung": a loop that never ends; "blocked": in recv
    closed,          \* the client sockets the server has closed
    nextSock,        \* the next socket accept returns
    client_address,  \* __run's client_address: the last accepted peer
    last,            \* what the last handler did
    reader,          \* codec runs: the reader under test
    input,           \* codec runs: the scenario
    wire,            \* codec runs: what is still to arrive
    outs,            \* codec runs: what each decode gave
    session,         \* session runs: the client object's fields
    socks,           \* session runs: the state of each socket it has made
    slast            \* session runs: what the last handler did

vars == << connections, ready, pc, closed, nextSock, client_address, last,
           reader, input, wire, outs, session, socks, slast >>
serverVars == << connections, ready, pc, closed, nextSock, client_address, last >>
codecVars == << reader, input, wire, outs >>
sessionVars == << session, socks, slast >>

\* self.server_socket, the first entry of self.connections.
server_socket == 0

Clients(conns) == {conns[i] : i \in 1..Len(conns)} \ {server_socket}

\* list.remove(sock): the first occurrence goes.
RECURSIVE Remove(_, _)
Remove(l, x) ==
    IF l = << >> THEN << >>
    ELSE IF Head(l) = x THEN Tail(l) ELSE << Head(l) >> \o Remove(Tail(l), x)

InList(l, x) == \E i \in 1..Len(l) : l[i] = x

RECURSIVE BroadcastLoop(_, _, _, _, _, _)
\* The loop without the test that leaves the sender out.
BroadcastLoopSendsToSender(conns, i, client_socket, frame, fail, acc) ==
    IF i > Len(conns)
    THEN [connections |-> conns, sends |-> acc.sends, failed |-> acc.failed]
    ELSE LET sock == conns[i]
         IN  IF sock # server_socket
             THEN IF sock \in fail
                  THEN BroadcastLoop(Remove(conns, sock), i + 1, client_socket, frame, fail,
                                     [acc EXCEPT !.failed = @ \cup {sock}])
                  ELSE BroadcastLoop(conns, i + 1, client_socket, frame, fail,
                         [acc EXCEPT !.sends = Append(@, [to |-> sock, frame |-> frame])])
             ELSE BroadcastLoop(conns, i + 1, client_socket, frame, fail, acc)

\* __broadcastmsg's for loop over self.connections, from list index i (the
\* iterator's position).  A send that raises socket.error ends in
\* _disconnect(sock), which removes sock from the list being iterated.
BroadcastLoop(conns, i, client_socket, frame, fail, acc) ==
    IF i > Len(conns)
    THEN [connections |-> conns, sends |-> acc.sends, failed |-> acc.failed]
    ELSE LET sock == conns[i]
             is_not_the_server == sock # server_socket
             is_not_the_client__sendmsging == sock # client_socket
         IN  IF is_not_the_server /\ is_not_the_client__sendmsging
             THEN IF sock \in fail
                  THEN BroadcastLoop(Remove(conns, sock), i + 1, client_socket, frame, fail,
                                     [acc EXCEPT !.failed = @ \cup {sock}])
                  ELSE BroadcastLoop(conns, i + 1, client_socket, frame, fail,
                         [acc EXCEPT !.sends = Append(@, [to |-> sock, frame |-> frame])])
             ELSE BroadcastLoop(conns, i + 1, client_socket, frame, fail, acc)

\* __broadcastmsg(client_socket, client_message); fail: the sockets on which
\* send raises socket.error.
Broadcastmsg(conns, client_socket, client_message, fail) ==
    BroadcastLoop(conns, 1, client_socket, ServerSendmsg(client_message), fail,
                  [sends |-> << >>, failed |-> {}])

NoBroadcast(conns) == [connections |-> conns, sends |-> << >>, failed |-> {}]

\* The address of a peer, as the digit of its socket.
Addr(sock) == Ch.zero + sock

\* The uuid4 the server draws.
ServerUuid == JStr(<< 122 >>)

\* The arrival message of __run; its body cut to '+' and the address.
ArrivalMsg(addr) ==
    JsonDumps(<< << K.uuid, ServerUuid >>, << K.username, JStr(ServerStr) >>,
                 << K.type, JStr(UrsMsg) >>, << K.body, JStr(<< 43, addr >>) >> >>)

\* The departure message of __run; its body cut to '-' and the address.
DepartureMsg(addr) ==
    JsonDumps(<< << K.uuid, ServerUuid >>, << K.username, JStr(ServerStr) >>,
                 << K.type, JStr(UsrMsg) >>, << K.body, JStr(<< 45, addr >>) >> >>)

\* The status message of __run for body 6; its body cut to the name that is
\* formatted into it (self.username) and "Away".
StatusStr == << 115, 116, 97, 116, 117, 115 >>
AwayMsg(username, self_username) ==
    JsonDumps(<< << K.uuid, ServerUuid >>, << K.username, username >>,
                 << K.type, JStr(SvcMsg) >>, << K.msgcommand, JStr(StatusStr) >>,
                 << K.newstatusstr, JStr(AwayStr) >>, << K.newstatusid, JInt(1) >>,
                 << K.body, JStr(self_username \o << 32 >> \o AwayStr) >> >>)

\* _disconnect(sock, logmessage) called with nargs arguments: more than two is
\* a TypeError before the body runs; else the socket is closed and
\* list.remove(sock) raises ValueError when sock is not in the list.
Disconnect(conns, sock, nargs) ==
    IF nargs > 2 THEN [st |-> "typeerr", connections |-> conns, closed |-> {}]
    ELSE IF InList(conns, sock)
         THEN [st |-> "ok", connections |-> Remove(conns, sock), closed |-> {sock}]
         ELSE [st |-> "valueerr", connections |-> conns, closed |-> {sock}]

MsgErr == << 109, 115, 103, 101, 114, 114 >>

\* What one pass of the for loop's body did: op names the branch taken, pc
\* where the thread is afterwards, bc the broadcast it made, closed the
\* sockets it closed.
Res(op, nextpc, data, bc, cl) ==
    [op |-> op, pc |-> nextpc, data |-> data, connections |-> bc.connections,
     sends |-> bc.sends, failed |-> bc.failed, closed |-> cl \cup bc.failed]

\* The unknown command relayed to the other connections.
UnknownCommandBroadcasts(conns, sock, data, fail) ==
    Res("unknown", "run", data, Broadcastmsg(conns, sock, data, fail), {})

\* The else branch of the service message: logging.info("Unknown command
\* ..."); nothing is sent and the connection list is left as it is.
UnknownCommand(conns, sock, data, fail) ==
    Res("unknown", "run", data, NoBroadcast(conns), {})

\* The body of "if data:" in __run.  recv_msgtype and msg_dict are assigned
\* on every path before they are read, so their values of earlier passes
\* never show.
DataEvent(conns, sock, data, fail, self_username) ==
    LET j == JsonLoads(data)
    IN  IF ~j.ok \/ j.kind = "scalar"
        THEN Res("msgerr", "run", data, Broadcastmsg(conns, sock, data, fail), {})
        ELSE IF K.type \notin DOMAIN j.obj
        THEN Res("keyerr", "dead", data, NoBroadcast(conns), {})
        ELSE LET recv_msgtype == j.obj[K.type]
             IN  IF recv_msgtype = JStr(UsrMsg)
                 THEN Res("usrmsg", "run", data, Broadcastmsg(conns, sock, data, fail), {})
                 ELSE IF recv_msgtype = JStr(SvcMsg)
                 THEN IF K.body \notin DOMAIN j.obj
                      THEN Res("keyerr", "dead", data, NoBroadcast(conns), {})
                      ELSE IF j.obj[K.body] = JInt(1)
                      THEN LET d == Disconnect(conns, sock, 4)
                           IN  Res("shutdown", IF d.st = "ok" THEN "run" ELSE "dead", data,
                                   NoBroadcast(d.connections), d.closed)
                      ELSE IF j.obj[K.body] = JInt(6)
                      THEN IF K.username \notin DOMAIN j.obj
                           THEN Res("keyerr", "dead", data, NoBroadcast(conns), {})
                           ELSE Res("status", "run", data,
                                    Broadcastmsg(conns, sock,
                                        AwayMsg(j.obj[K.username], self_username), fail), {})
                      ELSE UnknownCommand(conns, sock, data, fail)
                 ELSE IF recv_msgtype = JStr(MsgErr)
                 THEN Res("msgerr", "run", data, Broadcastmsg(conns, sock, data, fail), {})
                 ELSE Res("ignored", "run", data, NoBroadcast(conns), {})

\* The else branch of __run's for loop: a client socket is ready.  cl: the
\* sockets already closed (recv on one raises socket.error); addr: __run's
\* client_address.
ClientEvent(conns, cl, addr, sock, w, fail) ==
    LET r == IF sock \in cl THEN [st |-> "sockerr", data |-> << >>, w |-> w]
             ELSE ServerReceivemsg(w)
    IN  IF r.st = "hang" THEN Res("recv", "hung", << >>, NoBroadcast(conns), {})
        ELSE IF r.st = "blocked" THEN Res("recv", "blocked", << >>, NoBroadcast(conns), {})
        ELSE IF r.st \in {"attrerr", "unicodeerr", "structerr"}
        THEN Res("recv", "dead", << >>, NoBroadcast(conns), {})
        ELSE IF r.st = "sockerr"
        THEN LET bc == Broadcastmsg(conns, sock, DepartureMsg(Addr(addr)), fail)
                 d  == Disconnect(bc.connections, sock, 2)
             IN  Res("departure", IF d.st = "ok" THEN "run" ELSE "dead", << >>,
                     [bc EXCEPT !.connections = d.connections], d.closed)
        ELSE IF r.data = << >> THEN Res("empty", "run", << >>, NoBroadcast(conns), {})
        ELSE DataEvent(conns, sock, r.data, fail, ServerStr)

\* What a client socket delivers when the server reads it, by name.
Script(name, w) == [name |-> name, wire |-> w]

Whole(frame) == Wire(<< frame >>, "open")

UsrFrame == ClientSendmsg(JStr(<< 120 >>), JStr(NameA), JStr(<< 104 >>), JStr(UsrMsg))
SvcFrame(body) == ClientSendmsg(JStr(<< 120 >>), JStr(NameA), JInt(body), JStr(SvcMsg))
GuiUsrFrame == ClientJSendmsg(Msg(<< 120 >>, NameA, JInt(0), JStr(<< 104 >>), JNull, JNull))
\* The CLI client's frame of a typed line with a non-ASCII character, and the
\* GUI client's frame of _action_status_combo with "Away" (index 1) selected.
UsrEscFrame == ClientSendmsg(JStr(<< 120 >>), JStr(NameA), JStr(<< 233 >>), JStr(UsrMsg))
GuiStatusFrame == ClientJSendmsg(Msg(<< 120 >>, NameA, JInt(1), JNull, JInt(0), JInt(1)))

ServerScripts ==
    { Script("usr", Whole(UsrFrame)),
      Script("usr_raw", Whole(PeerFrame(RawUsrText))),
      Script("usr_gui", Whole(GuiUsrFrame)),
      Script("usr_esc", Whole(UsrEscFrame)),
      Script("shutdown", Whole(SvcFrame(1))),
      Script("away", Whole(SvcFrame(6))),
      Script("unknown", Whole(SvcFrame(7))),
      Script("other", Whole(SvcFrame(3))),
      Script("status0", Whole(SvcFrame(0))),
      Script("status5", Whole(SvcFrame(5))),
      Script("status8", Whole(SvcFrame(8))),
      Script("status_gui", Whole(GuiStatusFrame)),
      Script("notype", Whole(PeerFrame(NoTypeText))),
      Script("nobody", Whole(PeerFrame(NoBodyText))),
      Script("nouser", Whole(PeerFrame(NoUserText))),
      Script("badjson", Whole(PeerFrame(BadJsonText))),
      Script("number", Whole(PeerFrame(NumberText))),
      Script("eof_start", Wire(<< >>, "eof")),
      Script("eof_prefix", Wire(<< SubSeq(UsrFrame, 1, 2) >>, "eof")),
      Script("eof_payload", Wire(<< SubSeq(UsrFrame, 1, 6) >>, "eof")),
      Script("sockerr", Wire(<< >>, "err")),
      Script("split_prefix",
             Wire(<< SubSeq(UsrFrame, 1, 2), SubSeq(UsrFrame, 3, 4),
                     SubSeq(UsrFrame, 5, Len(UsrFrame)) >>, "open")),
      Script("split_payload",
             Wire(<< SubSeq(UsrFrame, 1, 4), SubSeq(UsrFrame, 5, 9),
                     SubSeq(UsrFrame, 10, Len(UsrFrame)) >>, "open")),
      Script("queued", Whole(UsrFrame \o SvcFrame(6))) }

NoLast ==
    [op |-> "none", input |-> "none", sock |-> server_socket, pc |-> "run",
     data |-> << >>, pre |-> << >>, post |-> << >>, sends |-> << >>, failed |-> {},
     addr |-> server_socket]

Log(res, name, sock, pre, addr) ==
    [op |-> res.op, input |-> name, sock |-> sock, pc |-> res.pc, data |-> res.data,
     pre |-> pre, post |-> res.connections, sends |-> res.sends, failed |-> res.failed,
     addr |-> addr]

\* The entries of l that are in S, in l's order.
RECURSIVE Filter(_, _)
Filter(l, S) ==
    IF l = << >> THEN << >>
    ELSE (IF Head(l) \in S THEN << Head(l) >> ELSE << >>) \o Filter(Tail(l), S)

AfterPass == IF Tail(ready) = << >> THEN "select" ELSE "dispatch"

InitServer ==
    /\ connections = << server_socket >>
    /\ ready = << >>
    /\ pc = "select"
    /\ closed = {}
    /\ nextSock = 1
    /\ client_address = server_socket
    /\ last = NoLast

IdleCodec ==
    /\ reader = "none"
    /\ input = NoScenario
    /\ wire = Wire(<< >>, "open")
    /\ outs = << >>

\* No client session is run.
NoSession ==
    [kind |-> "none", client |-> 1, is_running |-> FALSE, is_connected |-> FALSE,
     connections |-> << >>, selected |-> 0, online_table_dm |-> << >>,
     where |-> "idle", main |-> "start", ctx |-> "none"]

\* The object's fields, the state of its socket, the rows of the table of
\* online users, and which thread runs the message loop.
Snap(s, sk) ==
    [fields |-> [is_running |-> s.is_running, is_connected |-> s.is_connected,
                 connections |-> s.connections],
     client |-> s.client, sock |-> sk[s.client], where |-> s.where,
     table |-> s.online_table_dm, ctx |-> s.ctx]

\* Nothing arrives on the socket.
NoInbound == [chunks |-> << >>, end |-> "open"]

\* No handler has run.
NoOp ==
    [op |-> "none", by |-> "main", env |-> [connect |-> TRUE, send |-> TRUE, send2 |-> TRUE,
                             shut |-> TRUE, recv |-> "data"],
     inbound |-> NoInbound,
     st |-> "ok", events |-> << >>,
     before |-> Snap(NoSession, << "fresh" >>), after |-> Snap(NoSession, << "fresh" >>),
     prev |-> [op |-> "none", st |-> "ok", fields |-> Snap(NoSession, << "fresh" >>).fields,
               inbound |-> NoInbound]]

IdleSession ==
    /\ session = NoSession
    /\ socks = << >>
    /\ slast = NoOp

Init == InitServer /\ IdleCodec /\ IdleSession

\* select.select(self.connections, [], [], 60): any of the sockets may be
\* ready; none is the timeout.
Select ==
    /\ pc = "select"
    /\ \E S \in SUBSET {connections[i] : i \in 1..Len(connections)} :
          /\ ready' = Filter(connections, S)
          /\ pc' = IF S = {} THEN "select" ELSE "dispatch"
    /\ last' = NoLast
    /\ UNCHANGED << connections, closed, nextSock, client_address, codecVars, sessionVars >>

\* The listening socket is ready and accept returns a new socket.
Accept ==
    /\ pc = "dispatch"
    /\ Head(ready) = server_socket
    /\ nextSock <= MaxClients
    /\ \E fail \in SUBSET Clients(connections) :
          LET client_socket == nextSock
              bc == Broadcastmsg(Append(connections, client_socket), client_socket,
                                 ArrivalMsg(Addr(client_socket)), fail)
              res == Res("accept", "run", << >>, bc, {})
          IN  /\ connections' = res.connections
              /\ closed' = closed \cup res.closed
              /\ last' = Log(res, "accept", client_socket, connections, client_socket)
    /\ client_address' = nextSock
    /\ nextSock' = nextSock + 1
    /\ ready' = Tail(ready)
    /\ pc' = AfterPass
    /\ UNCHANGED << codecVars, sessionVars >>

\* accept raises socket.error: break leaves the for loop.
AcceptFail ==
    /\ pc = "dispatch"
    /\ Head(ready) = server_socket
    /\ ready' = << >>
    /\ pc' = "select"
    /\ last' = NoLast
    /\ UNCHANGED << connections, closed, nextSock, client_address, codecVars, sessionVars >>

\* A client socket of the ready list is read and its message handled.
RunClient ==
    /\ pc = "dispatch"
    /\ Head(ready) # server_socket
    /\ \E sc \in ServerScripts :
       \E fail \in SUBSET (Clients(connections) \ {Head(ready)}) :
          LET sock == Head(ready)
              res == ClientEvent(connections, closed, client_address, sock, sc.wire, fail)
          IN  /\ connections' = res.connections
              /\ closed' = closed \cup res.closed
              /\ last' = Log(res, sc.name, sock, connections, client_address)
              /\ pc' = IF res.pc = "run" THEN AfterPass ELSE res.pc
    /\ ready' = Tail(ready)
    /\ UNCHANGED << nextSock, client_address, codecVars, sessionVars >>

Next == Select \/ Accept \/ AcceptFail \/ RunClient

Spec == Init /\ [][Next]_vars

\* ------------------------------------------------------------- codec runs
\* A reader is run on what a scenario delivers, one decode per step.
Readers == {"server", "clientj", "client"}

IdleServer ==
    /\ connections = << >>
    /\ ready = << >>
    /\ pc = "idle"
    /\ closed = {}
    /\ nextSock = 1
    /\ client_address = server_socket
    /\ last = NoLast

\* One frame, all of it, cut into chunks.
SplitScenarios(f) ==
    {Scenario("split", << f >>, c, Len(f.frame), "open") :
        c \in CutSets(Len(f.frame), MaxCuts)}

\* Two frames one after the other, all of them, cut into chunks or not.
QueueScenarios(f, g) ==
    {Scenario("queue", << f, g >>, c, Len(f.frame) + Len(g.frame), e) :
        c \in CutSets(Len(f.frame) + Len(g.frame), MaxCuts - 1), e \in {"open", "eof"}}

\* The first k bytes of one frame, then the peer closes or the socket fails.
ShortScenarios(f) ==
    {Scenario("short", << f >>, c, k, e) :
        c \in {{}, {2}}, k \in 0..(Len(f.frame) - 1), e \in {"eof", "err"}}

InitCodec ==
    /\ IdleServer
    /\ IdleSession
    /\ reader \in Readers
    /\ \/ \E f \in CodecFrames : input \in SplitScenarios(f) \cup ShortScenarios(f)
       \/ \E f \in QueueFrames \cup {BadJsonFrame}, g \in QueueFrames :
             input \in QueueScenarios(f, g)
    /\ wire = WireOf(input)
    /\ outs = << >>

\* A decode is asked for each frame sent, as long as the reader returns.
CanDecode ==
    /\ pc = "idle"
    /\ Len(outs) < Len(input.frames)
    /\ outs # << >> => outs[Len(outs)].st \in {"data", "return"}

DecodeServer ==
    /\ reader = "server"
    /\ CanDecode
    /\ \E r \in {ServerReceivemsg(wire)} :
          /\ outs' = Append(outs, [st |-> r.st, val |-> r.data])
          /\ wire' = r.w
    /\ UNCHANGED << serverVars, reader, input, sessionVars >>

DecodeClientJ ==
    /\ reader = "clientj"
    /\ CanDecode
    /\ \E r \in {ClientJReceivemsg(wire)} :
          /\ outs' = Append(outs, [st |-> r.st, val |-> r.ret])
          /\ wire' = r.w
    /\ UNCHANGED << serverVars, reader, input, sessionVars >>

DecodeClient ==
    /\ reader = "client"
    /\ CanDecode
    /\ \E r \in {ClientReceivemsg(wire)} :
          /\ outs' = Append(outs, [st |-> r.st, val |-> r.ret])
          /\ wire' = r.w
    /\ UNCHANGED << serverVars, reader, input, sessionVars >>

NextCodec == DecodeServer \/ DecodeClientJ \/ DecodeClient

SpecCodec == InitCodec /\ [][NextCodec]_vars

\* ------------------------------------------------------------ session runs
\* A client object and the sockets it makes.  A handler (a menu or button
\* action, a call of the object's owner) runs from start to end as one step.

\* What the operating system answers to the calls of one handler: whether
\* connect succeeds, whether send succeeds (send: the first send of the
\* handler, send2: restart_session's status message), whether
\* shutdown(SHUT_WR) succeeds, and what the recv of stop_session gives
\* ("block": the peer neither writes nor closes).
Envs ==
    [connect : BOOLEAN, send : BOOLEAN, send2 : BOOLEAN, shut : BOOLEAN,
     recv : {"data", "eof", "err", "block"}]

\* What the socket delivers to the receivemsg of the message loop: frames
\* of the GUI client (a user message, one with white space around its text,
\* one with a non-ASCII text; the status messages of index 1 and of index 3,
\* "Offline"; service messages with command 7 and command 9), the CLI
\* client's user message as the server relays it, a payload that is not
\* JSON; the end of the stream, at once or inside a payload.
GuiOfflineFrame == ClientJSendmsg(Msg(<< 120 >>, NameA, JInt(1), JNull, JInt(0), JInt(3)))
GoneFrame == ClientJSendmsg(Msg(<< 120 >>, NameA, JInt(1), JNull, JInt(7), JNull))
GuiStopFrame == ClientJSendmsg(Msg(<< 120 >>, NameA, JInt(1), JNull, JInt(9), JNull))
GuiPaddedFrame ==
    ClientJSendmsg(Msg(<< 120 >>, NameA, JInt(0), JStr(<< 32, 104, 10 >>), JNull, JNull))
GuiEscFrame == ClientJSendmsg(Msg(<< 120 >>, NameA, JInt(0), JStr(<< 233 >>), JNull, JNull))

Inbound ==
    {Whole(f) : f \in {GuiUsrFrame, GuiPaddedFrame, GuiEscFrame, GuiStatusFrame,
                       GuiOfflineFrame, GoneFrame, GuiStopFrame, UsrFrame,
                       BadJsonFrame.frame}}
        \cup {Wire(<< >>, "eof"), Wire(<< SubSeq(GuiUsrFrame, 1, 6) >>, "eof")}

\* An observable step of a handler: a call on socket sock, or a line given
\* to the display sink (what: the notice's first words).
Ev(ev, sock, what, frame) == [ev |-> ev, sock |-> sock, what |-> what, frame |-> frame]
Display(what) == Ev("display", 0, what, << >>)

\* The socket after a call on it raised socket.error: a connection that
\* was up is lost ("broken": every later call on it raises).
Lost(sk, c) == IF sk[c] \in {"connected", "wrshut"} THEN [sk EXCEPT ![c] = "broken"] ELSE sk

\* What a handler leaves: the object's fields, the sockets, the steps taken,
\* and "ok" (it returned), "blocked" (it waits in recv) or "raised".
R(s, sk, events, st) ==
    [s |-> s, sk |-> sk, events |-> events, st |-> st, inbound |-> NoInbound]

\* The sending part of ChatClientBase.sendmsg: nothing when not running; a
\* failed send is reported for a user message only.
ClientJSend(s, sk, msg, msgtype, command, primarykey, ok) ==
    LET snd_msg == ClientJSendmsg(Msg(<< 120 >>, NameA, JInt(msgtype), msg, command,
                                      primarykey))
    IN  IF ~s.is_running THEN << >>
        ELSE IF sk[s.client] = "connected" /\ ok
             THEN << Ev("send", s.client, "", snd_msg) >>
        ELSE IF msgtype = 0 THEN << Display("Unable to send message") >>
        ELSE << >>

\* stop_session with the socket.error of shutdown left uncaught.
ClientJStopSessionUncaught(s, sk, env) ==
    LET sent == << Display("Stopping client") >>
                   \o ClientJSend(s, sk, JNull, 1, JInt(9), JNull, env.send)
        c == s.client
        stopped == [s EXCEPT !.connections = << >>, !.is_running = FALSE]
    IN  IF ~(sk[c] \in {"connected", "wrshut"} /\ env.shut)
        THEN R(s, Lost(sk, c), sent, "raised")
        ELSE LET sk1 == [sk EXCEPT ![c] = "wrshut"]
                 shut == sent \o << Ev("shutdown", c, "", << >>) >>
             IN  IF env.recv = "block" THEN R(s, sk1, shut, "blocked")
                 ELSE IF env.recv = "err"
                      THEN R(stopped, Lost(sk1, c),
                             shut \o << Display("Unable to close") >>, "ok")
                 ELSE R(stopped, [sk1 EXCEPT ![c] = "closed"],
                        shut \o << Ev("recv", c, "", << >>), Ev("close", c, "", << >>) >>,
                        "ok")

\* ChatClientBase.stop_session: the shutdown message (type 1, command 9),
\* shutdown(SHUT_WR), recv(4096), close; a socket.error of any of the three
\* skips the rest of them; then connections = list(), is_running = False.
ClientJStopSession(s, sk, env) ==
    LET sent == << Display("Stopping client") >>
                   \o ClientJSend(s, sk, JNull, 1, JInt(9), JNull, env.send)
        c == s.client
        stopped == [s EXCEPT !.connections = << >>, !.is_running = FALSE]
    IN  IF ~(sk[c] \in {"connected", "wrshut"} /\ env.shut)
        THEN R(stopped, Lost(sk, c), sent \o << Display("Unable to close") >>, "ok")
        ELSE LET sk1 == [sk EXCEPT ![c] = "wrshut"]
                 shut == sent \o << Ev("shutdown", c, "", << >>) >>
             IN  IF env.recv = "block" THEN R(s, sk1, shut, "blocked")
                 ELSE IF env.recv = "err"
                      THEN R(stopped, Lost(sk1, c),
                             shut \o << Display("Unable to close") >>, "ok")
                 ELSE R(stopped, [sk1 EXCEPT ![c] = "closed"],
                        shut \o << Ev("recv", c, "", << >>), Ev("close", c, "", << >>) >>,
                        "ok")

\* socket_connect that takes a failed connect for a connection.
ClientJSocketConnectIgnoresFailure(s, sk, env) ==
    LET c == s.client
        trying == << Display("Trying to connect") >>
    IN  IF sk[c] = "fresh" /\ env.connect
        THEN R([s EXCEPT !.is_running = TRUE, !.connections = Append(@, c)],
               [sk EXCEPT ![c] = "connected"],
               trying \o << Ev("connect", c, "", << >>), Display("Connected") >>, "ok")
        ELSE R([s EXCEPT !.is_running = TRUE, !.connections = Append(@, c)], sk,
               trying \o << Ev("connect_failed", c, "", << >>) >>, "ok")

\* ChatClientBase.socket_connect: setsockopt, outside the try, raises
\* socket.error on a closed socket; on a socket.error of connect the failure
\* is displayed and stop_session is called; else is_running = True and the
\* socket is appended to connections.
ClientJSocketConnect(s, sk, env) ==
    LET c == s.client
        trying == << Display("Trying to connect") >>
    IN  IF sk[c] = "closed" THEN R(s, sk, trying, "raised")
        ELSE IF sk[c] = "fresh" /\ env.connect
        THEN R([s EXCEPT !.is_running = TRUE, !.connections = Append(@, c)],
               [sk EXCEPT ![c] = "connected"],
               trying \o << Ev("connect", c, "", << >>), Display("Connected") >>, "ok")
        ELSE LET r == ClientJStopSession(s, sk, env)
             IN  R(r.s, r.sk,
                   trying \o << Ev("connect_failed", c, "", << >>),
                                Display("Unable to connect") >> \o r.events, r.st)

\* ChatClientGUI._action_status_combo: the selected index goes out as a
\* service message (type 1, command 0, primarykey the index).
ClientJActionStatusCombo(s, sk, ok) ==
    ClientJSend(s, sk, JNull, 1, JInt(0), JInt(s.selected), ok)

\* The combo box left at the index it had.
SetSelectedIndexKeeps(s, index) == s

\* current_status_select_cbox.setSelectedIndex(index); the action listener
\* runs after it.
SetSelectedIndex(s, index) == [s EXCEPT !.selected = index]

\* restart_session that connects without tearing the old connection down.
ClientJRestartSessionKeepsOld(s, sk, env) ==
    LET new == Len(sk) + 1
        c == ClientJSocketConnect([s EXCEPT !.client = new], Append(sk, "fresh"), env)
        s2 == SetSelectedIndex(c.s, 0)
        done == << Display("before drop"), Display("after drop"),
                   Ev("sleep", 0, "", << >>), Display("befor sockassign"),
                   Ev("socket", new, "", << >>) >>
                  \o c.events \o ClientJActionStatusCombo(s2, c.sk, env.send2)
    IN  IF s2.is_running
        THEN R([s2 EXCEPT !.where = "loop"], c.sk, done, "ok")
        ELSE R([s2 EXCEPT !.where = "idle"], c.sk,
               done \o << Display("Gave up trying to connect") >>, "ok")

\* ChatClientGUI.restart_session up to the call of _im_exchange: stop_session
\* if running, sleep, a new socket, socket_connect, index 0 selected (which
\* runs _action_status_combo); where = "loop" when _im_exchange is entered.
ClientJRestartSession(s, sk, env) ==
    LET before == << Display("before drop") >>
        t == IF s.is_running THEN ClientJStopSession(s, sk, env)
             ELSE R(s, sk, << >>, "ok")
    IN  IF t.st # "ok" THEN R(t.s, t.sk, before \o t.events, t.st)
        ELSE LET new == Len(t.sk) + 1
                 made == before \o t.events
                            \o << Display("after drop"), Ev("sleep", 0, "", << >>),
                                  Display("befor sockassign"),
                                  Ev("socket", new, "", << >>) >>
                 c == ClientJSocketConnect([t.s EXCEPT !.client = new],
                                           Append(t.sk, "fresh"), env)
                 s2 == SetSelectedIndex(c.s, 0)
                 done == made \o c.events \o ClientJActionStatusCombo(s2, c.sk, env.send2)
             IN  IF s2.is_running
                 THEN R([s2 EXCEPT !.where = "loop"], c.sk, done, "ok")
                 ELSE R([s2 EXCEPT !.where = "idle"], c.sk,
                        done \o << Display("Gave up trying to connect") >>, "ok")

\* ChatClientGUI._action_send_button: the text is displayed and sent as a
\* user message (type 0).
ClientJActionSendButton(s, sk, msg_text, ok) ==
    << Ev("display", 0, "You", msg_text) >>
        \o ClientJSend(s, sk, JStr(msg_text), 0, JNull, JNull, ok)

\* unicode.strip(): the text without the white space at its ends.
IsSpace(c) == c \in {9, 10, 11, 12, 13, 32}
RECURSIVE LStrip(_)
LStrip(s) == IF s # << >> /\ IsSpace(Head(s)) THEN LStrip(Tail(s)) ELSE s
RECURSIVE RStrip(_)
RStrip(s) ==
    IF s # << >> /\ IsSpace(s[Len(s)]) THEN RStrip(SubSeq(s, 1, Len(s) - 1)) ELSE s
Strip(s) == RStrip(LStrip(s))

\* One pass of the loop of ChatClientGUI._im_exchange with the socket
\* readable, m being what receivemsg gives: a user message (type 0) is displayed and a
\* service message with command 7 gives the "gone offline" line; any other
\* tuple, and every status but 0, goes back to the top of the loop.
\* recv_body.strip() raises AttributeError unless the body is a string, and
\* "{0}".format raises UnicodeEncodeError on a non-ASCII one.
ClientJImExchange(s, sk, m) ==
    LET c == s.client
        read == << Ev("recv", c, "", << >>) >>
    IN  IF sk[c] # "connected" THEN R(s, Lost(sk, c), read, "raised")
        ELSE IF m.st \in {"hang", "blocked"} THEN R(s, sk, read, m.st)
        ELSE IF m.st # "return" THEN R(s, sk, read, "raised")
        ELSE IF m.ret.ret_code # 0 THEN R(s, sk, read, "ok")
        ELSE IF m.ret.type = JInt(0)
             THEN IF m.ret.body.t # "str" \/ ~IsAscii(m.ret.body)
                  THEN R(s, sk, read, "raised")
                  ELSE R(s, sk, read \o << Ev("display", 0, "From", Strip(m.ret.body.v)) >>,
                         "ok")
        ELSE IF m.ret.type = JInt(1) /\ m.ret.command = JInt(7)
             THEN R(s, sk, read \o << Display("gone offline") >>, "ok")
        ELSE R(s, sk, read, "ok")

\* The sending part of ChatClient.__sendmsg: a failed send is printed.
ClientSend(s, sk, msg, msgtype, ok) ==
    IF sk[s.client] = "connected" /\ ok
    THEN << Ev("send", s.client, "", ClientSendmsg(JStr(<< 120 >>), JStr(NameA), msg,
                                                   msgtype)) >>
    ELSE << Display("Unable to send message") >>

\* ChatClient.stop: the shutdown message (type "svcmsg", body 1),
\* shutdown(SHUT_WR), close; a socket.error of shutdown skips close; then
\* running = False.  self.connections is left as it is.
ClientStop(s, sk, env) ==
    LET sent == << Display("Stopping client") >>
                   \o ClientSend(s, sk, JInt(1), JStr(SvcMsg), env.send)
        c == s.client
        stopped == [s EXCEPT !.is_running = FALSE]
    IN  IF sk[c] \in {"connected", "wrshut"} /\ env.shut
        THEN R(stopped, [sk EXCEPT ![c] = "closed"],
               sent \o << Ev("shutdown", c, "", << >>), Ev("close", c, "", << >>) >>, "ok")
        ELSE R(stopped, Lost(sk, c), sent \o << Display("Unable to close") >>, "ok")

\* ChatClient.socket_connect and what main does next: on socket.error stop()
\* and sys.exit(1); else is_connected, connections.append, running = True
\* and msgexchange is entered.
ClientSocketConnect(s, sk, env) ==
    LET c == s.client
    IN  IF sk[c] = "fresh" /\ env.connect
        THEN R([s EXCEPT !.is_connected = TRUE, !.connections = Append(@, c),
                         !.is_running = TRUE, !.where = "loop"],
               [sk EXCEPT ![c] = "connected"],
               << Ev("connect", c, "", << >>), Display("Connected") >>, "ok")
        ELSE LET r == ClientStop(s, sk, env)
             IN  R([r.s EXCEPT !.where = "exited"], r.sk,
                   << Ev("connect_failed", c, "", << >>), Display("Unable to connect") >>
                      \o r.events, r.st)

\* The lines typed at the CLI client: a message, and the quit commands.
Lines == {"h", "!q", "!shutdown", "!killsrv"}

\* The stdin branch of ChatClient.msgexchange: a quit command sends its
\* service message (1 for !shutdown, 9 for !killsrv), calls stop and leaves
\* the loop; any other line is sent as a user message.
ClientLine(s, sk, line, env) ==
    IF line = "h"
    THEN R(s, sk, ClientSend(s, sk, JStr(<< 104 >>), JStr(UsrMsg), env.send), "ok")
    ELSE LET first == IF line = "!shutdown"
                      THEN ClientSend(s, sk, JInt(1), JStr(SvcMsg), env.send)
                      ELSE IF line = "!killsrv"
                      THEN ClientSend(s, sk, JInt(9), JStr(SvcMsg), env.send)
                      ELSE << >>
             r == ClientStop(s, sk, [env EXCEPT !.send = env.send2])
         IN  R([r.s EXCEPT !.where = "exited"], r.sk, first \o r.events, r.st)

\* What a handler did, and prev: which handler ran before it and the fields
\* that one left.
Op(name, by, env, inbound, s, sk, r, prev) ==
    [op |-> name, by |-> by, env |-> env, inbound |-> inbound, st |-> r.st,
     events |-> r.events,
     before |-> Snap(s, sk), after |-> Snap(r.s, r.sk),
     prev |-> [op |-> prev.op, st |-> prev.st, fields |-> prev.after.fields,
               inbound |-> prev.inbound]]

\* ChatClientBase.__init__ / ChatClient.__init__, and the combo box at
\* index 3 ("Offline") as ChatClientGUI.__init__ leaves it.
InitSession ==
    /\ IdleServer
    /\ IdleCodec
    /\ \E kind \in {"gui", "cli"} :
          session = [kind |-> kind, client |-> 1, is_running |-> FALSE,
                     is_connected |-> FALSE, connections |-> << >>,
                     selected |-> IF kind = "gui" THEN 3 ELSE 0,
                     online_table_dm |-> << >>, where |-> "idle", main |-> "start",
                     ctx |-> "none"]
    /\ socks = << "fresh" >>
    /\ slast = NoOp

\* The handler has run: its result becomes the state.
Ran(name, by, env, r, where) ==
    LET s1 == [r.s EXCEPT !.where = IF r.st = "ok" THEN where ELSE r.st]
        s2 == [s1 EXCEPT !.ctx = IF s1.where # "loop" THEN "none"
                                 ELSE IF name \in {"restart", "connect"} THEN by ELSE @,
                         !.main = IF by = "main" THEN "called" ELSE @]
    IN  /\ session' = s2
        /\ socks' = r.sk
        /\ slast' = Op(name, by, env, r.inbound, session, socks, [r EXCEPT !.s = s2],
                       slast)
        /\ UNCHANGED << serverVars, codecVars >>

Alive == session.where \in {"idle", "loop"}

\* The answers a handler does not ask for are left at their first value.
Quiet(e, asked) ==
    /\ "connect" \notin asked => e.connect
    /\ "send" \notin asked => e.send
    /\ "send2" \notin asked => e.send2
    /\ "shut" \notin asked => e.shut
    /\ "recv" \notin asked => e.recv = "data"

\* The event-dispatch thread is not inside _im_exchange: it runs the
\* listeners of the menu, the button and the combo box.
EdtFree == session.ctx # "edt"

\* The "Disconnect" menu item, or the owner's call of stop_session.
StopSession ==
    /\ session.kind = "gui"
    /\ Alive
    /\ EdtFree
    /\ \E env \in {e \in Envs : Quiet(e, {"send", "shut", "recv"})} :
       \E r \in {ClientJStopSession(session, socks, env)} :
          Ran("stop", "edt", env, r, "idle")

\* main's call of restart_session, which comes first, or the "Re-connect"
\* menu item; _im_exchange then runs in the thread of the caller.
RestartSession ==
    /\ session.kind = "gui"
    /\ Alive
    /\ Len(socks) < MaxSockets
    /\ \E by \in {"main", "edt"} :
       /\ by = "main" => session.main = "start"
       /\ by = "edt" => session.main = "called" /\ EdtFree
       /\ \E env \in {e \in Envs :
                      Quiet(e, {"connect"}
                               \cup (IF session.is_running THEN {"send", "shut", "recv"}
                                     ELSE {})
                               \cup (IF e.connect THEN {"send2"} ELSE {}))} :
          \E r \in {ClientJRestartSession(session, socks, env)} :
             Ran("restart", by, env, r, r.s.where)

\* The owner's call of socket_connect on the GUI client's object, outside
\* restart_session and with no message loop running.
SocketConnectJ ==
    /\ session.kind = "gui"
    /\ session.where = "idle"
    /\ \E env \in {e \in Envs :
                      Quiet(e, {"connect"}
                               \cup (IF session.is_running THEN {"send", "shut", "recv"}
                                     ELSE {}))} :
       \E r \in {ClientJSocketConnect(session, socks, env)} :
          Ran("connect", "owner", env, r, "idle")

\* The "Send" button.
SendButton ==
    /\ session.kind = "gui"
    /\ Alive
    /\ EdtFree
    /\ \E env \in {e \in Envs : Quiet(e, {"send"})} :
       \E r \in {R(session, socks,
                   ClientJActionSendButton(session, socks, << 104 >>, env.send),
                   "ok")} :
          Ran("send", "edt", env, r, session.where)

\* The user selects a status in the combo box.
StatusCombo ==
    /\ session.kind = "gui"
    /\ Alive
    /\ EdtFree
    /\ \E index \in 0..3 :
       \E env \in {e \in Envs : Quiet(e, {"send"})} :
       \E s \in {SetSelectedIndex(session, index)} :
       \E r \in {R(s, socks, ClientJActionStatusCombo(s, socks, env.send), "ok")} :
          Ran("status", "edt", env, r, session.where)

\* The socket of the running message loop becomes readable.
ImExchange ==
    /\ session.kind = "gui"
    /\ session.where = "loop"
    /\ \E w \in Inbound :
       \E env \in {e \in Envs : Quiet(e, {})} :
       \E m \in {ClientJReceivemsg(w)} :
       \E r \in {ClientJImExchange(session, socks, m)} :
          Ran("receive", session.ctx, env, [r EXCEPT !.inbound = w], "loop")

\* main of the CLI client: socket_connect, then msgexchange.
SocketConnect ==
    /\ session.kind = "cli"
    /\ session.where = "idle"
    /\ ~session.is_connected
    /\ \E env \in {e \in Envs : Quiet(e, {"connect"})} :
       \E r \in {ClientSocketConnect(session, socks, env)} :
          Ran("connect", "main", env, r, r.s.where)

\* The owner's call of stop.
Stop ==
    /\ session.kind = "cli"
    /\ Alive
    /\ \E env \in {e \in Envs : Quiet(e, {"send", "shut"})} :
       \E r \in {ClientStop(session, socks, env)} :
          Ran("stop", "main", env, r, "idle")

\* A line is typed while msgexchange runs.
Line ==
    /\ session.kind = "cli"
    /\ session.where = "loop"
    /\ \E line \in Lines :
       \E env \in {e \in Envs : Quiet(e, {"send"} \cup (IF line = "h" THEN {}
                                                          ELSE {"send2", "shut"}))} :
       \E r \in {ClientLine(session, socks, line, env)} :
          Ran("line", "main", env, r, r.s.where)

NextSession ==
    StopSession \/ RestartSession \/ SocketConnectJ \/ SendButton \/ StatusCombo
        \/ ImExchange \/ SocketConnect \/ Stop \/ Line

SpecSession == InitSession /\ [][NextSession]_vars

\* ------------------------------------------------------------------ claims
SentTo(l) == {l.sends[i].to : i \in 1..Len(l.sends)}
Registered(l) == InList(l.pre, l.sock)
Others(l) == Clients(l.pre) \ {l.sock}

\* C1: a user message read from registered connection C, every send
\* succeeding, is sent exactly once to each of the other registered client
\* connections, as the frame of what was read, and neither to C nor to the
\* listening socket.
C1_BroadcastExclusion ==
    (last.op = "usrmsg" /\ last.failed = {}) =>
        /\ last.sock \in Clients(last.pre)
        /\ SentTo(last) = Others(last)
        /\ Len(last.sends) = Cardinality(Clients(last.pre)) - 1
        /\ \A i \in 1..Len(last.sends) :
              /\ last.sends[i].frame = ServerSendmsg(last.data)
              /\ last.sends[i].to \notin {last.sock, server_socket}

\* C1's case: a user message relayed to two other connections.
C1_Witness ==
    /\ last.op = "usrmsg"
    /\ last.failed = {}
    /\ Len(last.sends) = 2
    /\ Len(last.pre) = 4

\* C2: when a send fails during a broadcast, only the peers whose send
\* failed leave the connection set, every other registered client but the
\* sender gets the message, and the loop goes on.
C2_SendFailureIsolated ==
    (last.op \in {"usrmsg", "msgerr", "status"} /\ last.failed # {}) =>
        /\ SentTo(last) = Others(last) \ last.failed
        /\ Clients(last.post) = Clients(last.pre) \ last.failed
        /\ last.pc = "run"

\* C3: the shutdown-connection command from C removes and closes C, sends
\* nothing, leaves the other connections registered, and the loop goes on.
C3_ShutdownClosesOnlySender ==
    (last.op = "shutdown" /\ Registered(last)) =>
        /\ ~InList(last.post, last.sock)
        /\ last.sock \in closed
        /\ last.sends = << >>
        /\ Clients(last.post) = Others(last)
        /\ last.pc = "run"

\* C4: after malformed JSON, a payload lacking 'type', 'body' or 'username',
\* an unknown service command, a peer's EOF anywhere in a frame, or a
\* transport error on a registered connection, the server loop still runs.
C4_LoopSurvivesInbound ==
    (/\ Registered(last)
     /\ last.input \in {"badjson", "number", "notype", "nobody", "nouser", "unknown",
                        "eof_start", "eof_prefix", "eof_payload", "sockerr"}) =>
        last.pc = "run"

\* C5: a registered peer's EOF (before or inside a frame) or a transport
\* error on read ends with a departure notice to the other registered
\* connections and the connection removed and closed.
C5_DepartureOnPeerLoss ==
    (/\ Registered(last)
     /\ last.input \in {"eof_start", "eof_prefix", "eof_payload", "sockerr"}) =>
        /\ last.op = "departure"
        /\ last.failed = {} => SentTo(last) = Others(last)
        /\ \A i \in 1..Len(last.sends) :
              last.sends[i].frame = ServerSendmsg(DepartureMsg(Addr(last.addr)))
        /\ ~InList(last.post, last.sock)
        /\ last.sock \in closed

\* What a reader gives for frame i of the scenario when that frame arrives
\* alone and whole.
Alone(i) ==
    LET w == Whole(input.frames[i].frame)
    IN  IF reader = "server"
        THEN [st |-> ServerReceivemsg(w).st, val |-> ServerReceivemsg(w).data]
        ELSE IF reader = "clientj"
        THEN [st |-> ClientJReceivemsg(w).st, val |-> ClientJReceivemsg(w).ret]
        ELSE [st |-> ClientReceivemsg(w).st, val |-> ClientReceivemsg(w).ret]

\* C6: however a frame's bytes are split into chunks, the reader returns
\* what it returns for the whole frame in one chunk.
C6_SplitSameAsWhole ==
    (input.kind = "split" /\ Len(outs) = 1) => outs[1] = Alone(1)

\* C7: with frames queued back to back, successive decodes return each
\* frame's payload once and in order (server and GUI client readers).
C7_QueuedFramesInOrder ==
    (input.kind = "queue" /\ input.cuts = {} /\ reader \in {"server", "clientj"}) =>
        \A i \in 1..Len(outs) : outs[i] = Alone(i)

RoundTripCase ==
    /\ reader = "clientj"
    /\ input.kind = "split"
    /\ input.cuts = {}
    /\ input.frames[1].enc = "clientj"
    /\ Len(outs) = 1

SameFields(val, m, fields) ==
    \A f \in fields : f \in DOMAIN val /\ val[f] = m[f]

\* C8 as stated: receivemsg on sendmsg's frame for m gives status 0 and a
\* Message equal to m in id, sender, kind, body, command, action,
\* primaryKey and secondaryKey.
C8_RoundTripAllFields ==
    RoundTripCase =>
        /\ outs[1].st = "return"
        /\ outs[1].val.ret_code = 0
        /\ SameFields(outs[1].val, input.frames[1].m,
                      {"uuid", "username", "type", "body", "command", "action",
                       "primarykey", "secondarykey"})

\* C8 as amended: receivemsg on sendmsg's frame for m gives status 0 and a
\* tuple equal to m in sender, kind, body, command, action, primaryKey and
\* secondaryKey; the tuple has no id.
C8_RoundTripReturnedFields ==
    RoundTripCase =>
        /\ outs[1].st = "return"
        /\ outs[1].val.ret_code = 0
        /\ SameFields(outs[1].val, input.frames[1].m,
                      {"username", "type", "body", "command", "action",
                       "primarykey", "secondarykey"})
        /\ "uuid" \notin DOMAIN outs[1].val

\* C8's case: a user message whose body needs both kinds of escape has
\* made the round trip.
C8_Witness ==
    /\ RoundTripCase
    /\ input.frames[1].m.body = JStr(<< 233, 34 >>)
    /\ outs[1].val.body = JStr(<< 233, 34 >>)

\* C9: in every frame the server and the clients write, the 4-byte prefix
\* is the number of bytes of the UTF-8 payload after it.
C9_PrefixIsByteLength ==
    /\ \A i \in 1..Len(last.sends) :
          FramePrefix(last.sends[i].frame) = Len(FramePayload(last.sends[i].frame))
    /\ \A f \in ClientJFrames \cup ClientFrames :
          FramePrefix(f.frame) = Len(FramePayload(f.frame))

\* C10: when the peer closes before a whole frame has arrived, the clients'
\* receive ends and returns status 3 (an outcome other than "return" is a
\* receive that raised or never ended).
C10_EofGivesStatus3 ==
    (/\ reader \in {"clientj", "client"}
     /\ input.kind = "short"
     /\ input.end = "eof") =>
        (outs # << >> => outs[1].st = "return" /\ outs[1].val.ret_code = 3)

\* C11: in the clients, a frame whose payload is not JSON makes receive
\* return status 1, the session goes on to the next receive, and that
\* receive returns what the next frame gives when it arrives alone.
C11_MalformedThenNext ==
    (/\ reader \in {"clientj", "client"}
     /\ input.kind = "queue"
     /\ input.frames[1] = BadJsonFrame) =>
        /\ Len(outs) >= 1 => (outs[1].st = "return" /\ outs[1].val.ret_code = 1)
        /\ Len(outs) = 2 => outs[2] = Alone(2)

\* C12: in the clients, a frame whose payload is a JSON object without
\* 'username' or without 'type' makes receive return status 2.
C12_MissingFieldIsIncomplete ==
    (/\ reader \in {"clientj", "client"}
     /\ input.kind = "split"
     /\ input.cuts = {}
     /\ input.frames[1].frame \in {PeerFrame(NoTypeText), PeerFrame(NoUserText)}
     /\ Len(outs) = 1) =>
        (outs[1].st = "return" /\ outs[1].val.ret_code = 2)

\* The JSON object in the payload of a frame the server wrote.
SentObj(frame) == JsonLoads(Utf8Decode(FramePayload(frame)).s)

\* C13: a service message whose command is neither shutdown nor a status
\* change (3) is sent to no connection, the connection list is left as it
\* was, its sender included, nothing is closed, and the loop goes on.
C13_UnknownCommandNotSent ==
    (last.input = "other" /\ Registered(last)) =>
        /\ last.op = "unknown"
        /\ last.sends = << >>
        /\ last.post = last.pre
        /\ last.sock \notin closed
        /\ last.pc = "run"

\* C13's case: the command arrives while two other clients are registered
\* and their sends would succeed.
C13_Witness ==
    /\ last.input = "other"
    /\ last.op = "unknown"
    /\ Len(last.pre) = 4
    /\ last.sock = last.pre[2]

\* C14: for each status-change command (0, 5, 6, 7, 8 in the server's wire
\* form, and the GUI client's own status message) read from registered C,
\* every send succeeding, each other registered connection is sent a status
\* message that carries C's sender name.
C14_StatusChangeBroadcast ==
    (/\ last.input \in {"status0", "status5", "away", "unknown", "status8", "status_gui"}
     /\ Registered(last)
     /\ last.failed = {}) =>
        /\ SentTo(last) = Others(last)
        /\ \A i \in 1..Len(last.sends) :
              LET j == SentObj(last.sends[i].frame)
              IN  /\ j.ok
                  /\ K.msgcommand \in DOMAIN j.obj
                  /\ j.obj[K.msgcommand] = JStr(StatusStr)
                  /\ j.obj[K.username] = JsonLoads(last.data).obj[K.username]

\* C15: when accept succeeds, every send succeeding, the new connection is
\* appended to the list and each connection registered before, and not the
\* new one, is sent an arrival message whose type is 'usrmsg'.
C15_ArrivalIsUserMessage ==
    (last.op = "accept" /\ last.failed = {}) =>
        /\ last.post = Append(last.pre, last.sock)
        /\ SentTo(last) = Clients(last.pre)
        /\ last.sock \notin SentTo(last)
        /\ \A i \in 1..Len(last.sends) :
              /\ last.sends[i].frame = ServerSendmsg(ArrivalMsg(Addr(last.sock)))
              /\ SentObj(last.sends[i].frame).obj[K.type] = JStr(UsrMsg)

\* What client B's receive returns for a frame that reaches it whole: the
\* status, the sender and the body.
Received(rd, frame) ==
    LET r == IF rd = "client" THEN ClientReceivemsg(Whole(frame))
             ELSE ClientJReceivemsg(Whole(frame))
    IN  [st |-> r.st, ret_code |-> r.ret.ret_code, username |-> r.ret.username,
         body |-> r.ret.body]

\* C16: a user message the CLI client of A wrote (body "h" or a non-ASCII
\* character), read from registered A with every send succeeding, is sent to
\* each other registered client B with the payload as read, and B's receive
\* (either client) returns status 0 with A's username and that body.
C16_RelayReachesPeer ==
    (/\ last.input \in {"usr", "usr_esc"}
     /\ Registered(last)
     /\ last.failed = {}) =>
        \A b \in Others(last) :
           \E i \in 1..Len(last.sends) :
              /\ last.sends[i].to = b
              /\ FramePayload(last.sends[i].frame) = Utf8Encode(last.data)
              /\ \A rd \in {"client", "clientj"} :
                    Received(rd, last.sends[i].frame) =
                        [st |-> "return", ret_code |-> 0,
                         username |-> JsonLoads(last.data).obj[K.username],
                         body |-> JsonLoads(last.data).obj[K.body]]

\* The socket calls among the steps of a handler, the recv that drains the
\* socket left out.
Calls(events) == SelectSeq(events, LAMBDA e : e.ev \notin {"display", "recv", "sleep"})

\* The stop handler ran on a session that never connected, or right after
\* another stop that returned.
StopAgain == slast.op = "stop" /\ slast.prev.op = "stop" /\ slast.prev.st = "ok"
StopUnconnected == slast.op = "stop" /\ slast.before.sock = "fresh"

ServerTakesAsShutdown(frame) ==
    LET r == ServerReceivemsg(Whole(frame))
    IN  /\ r.st = "data"
        /\ DataEvent(<< server_socket, 1 >>, 1, r.data, {}, ServerStr).op = "shutdown"

\* C18: the stop handler on an open session, every socket call succeeding,
\* makes exactly these calls on the session's socket, in this order: send of
\* a frame the server takes for the shutdown-connection command, shutdown
\* of the write side, close.
C18_ShutdownSequence ==
    (/\ slast.op = "stop"
     /\ slast.before.fields.is_running
     /\ slast.before.sock = "connected"
     /\ slast.env.send /\ slast.env.shut /\ slast.env.recv \in {"data", "eof"}) =>
        LET ev == Calls(slast.events)
        IN  /\ Len(ev) = 3
            /\ \A k \in 1..Len(ev) : ev[k].sock = slast.before.client
            /\ ev[1].ev = "send"
            /\ ServerTakesAsShutdown(ev[1].frame)
            /\ ev[2].ev = "shutdown"
            /\ ev[3].ev = "close"

\* The positions of the steps of the last handler that are calls ev.
At(evs) == {k \in 1..Len(slast.events) : slast.events[k].ev \in evs}

\* C19: restart_session on a running session that returns with connect and
\* the status send succeeding: stop_session ran and every call on the old
\* socket came before the new socket was made (the old one closed, when its
\* shutdown and recv succeed); exactly one frame is sent on the new socket,
\* the status message with index 0; the session is running with the new
\* socket as its only connection.
C19_ReconnectSequence ==
    (/\ slast.op = "restart"
     /\ slast.before.fields.is_running
     /\ slast.st = "ok"
     /\ slast.env.connect /\ slast.env.send2) =>
        LET ev == slast.events
            old == slast.before.client
            new == slast.after.client
        IN  /\ new # old
            /\ At({"socket"}) = {k \in 1..Len(ev) : ev[k] = Ev("socket", new, "", << >>)}
            /\ Cardinality(At({"socket"})) = 1
            /\ \A m \in At({"socket"}) :
                  /\ \E k \in 1..(m - 1) : ev[k] = Display("Stopping client")
                  /\ \A k \in 1..Len(ev) : ev[k].sock = old => k < m
                  /\ (slast.env.shut /\ slast.env.recv \in {"data", "eof"}) =>
                        \E k \in 1..(m - 1) : ev[k] = Ev("close", old, "", << >>)
                  /\ \A k \in At({"connect", "send"}) : ev[k].sock = new => k > m
            /\ Cardinality({k \in At({"send"}) : ev[k].sock = new}) = 1
            /\ \A k \in At({"send"}) :
                  ev[k].sock = new =>
                     ev[k].frame = ClientJSendmsg(Msg(<< 120 >>, NameA, JInt(1), JNull,
                                                      JInt(0), JInt(0)))
            /\ slast.after.fields.is_running
            /\ slast.after.fields.connections = << new >>
            /\ slast.after.sock = "connected"
            /\ slast.after.where = "loop"

\* C19's case: a running session whose combo box is not at index 0 is
\* restarted, the old socket is closed and the new one connects.
C19_Witness ==
    /\ slast.op = "restart"
    /\ slast.before.fields.is_running
    /\ slast.st = "ok"
    /\ slast.env.connect /\ slast.env.send2 /\ slast.env.shut /\ slast.env.recv = "eof"
    /\ slast.prev.op = "status"
    /\ slast.after.fields.is_running

Has(events, ev, what) ==
    \E i \in 1..Len(events) : events[i].ev = ev /\ events[i].what = what
SendFailed ==
    /\ \/ slast.op \in {"send", "status"} /\ slast.before.fields.is_running
       \/ slast.op = "line" /\ slast.after.where = "loop"
    /\ \A i \in 1..Len(slast.events) : slast.events[i].ev # "send"

\* C21: a transport failure while the session sends a user message or a
\* service message outside the shutdown sequence is reported to the
\* display sink and is not fatal: the handler returns and the session's
\* fields are as before (still running, connection still registered).
C21_SendFailureReported ==
    SendFailed =>
        /\ slast.st = "ok"
        /\ Has(slast.events, "display", "Unable to send message")
        /\ slast.after.fields = slast.before.fields
        /\ slast.after.where = slast.before.where

\* What the receivemsg of the last pass of the message loop returned, and
\* Decoded: it decoded a message (status 0).
Got == ClientJReceivemsg(slast.inbound)
Decoded ==
    /\ slast.op = "receive"
    /\ slast.before.sock = "connected"
    /\ Got.st = "return"
    /\ Got.ret.ret_code = 0
IsUserMessage(ret) == ret.type \in {JInt(0), JStr(UsrMsg)}
IsServiceMessage(ret) == ret.type \in {JInt(1), JStr(SvcMsg)}
IsStatusChange(ret) == IsServiceMessage(ret) /\ ret.command = JInt(0)
Displays(events) == Len(SelectSeq(events, LAMBDA e : e.ev = "display"))
TableChanged == slast.after.table # slast.before.table

\* C22: every decoded inbound message goes to exactly one sink: a user
\* message to the display sink, a service message with the status-change
\* command to the table of online users, any other service message to the
\* display sink; none is dropped.
C22_OneSinkPerMessage ==
    Decoded /\ (IsUserMessage(Got.ret) \/ IsServiceMessage(Got.ret)) =>
        IF IsStatusChange(Got.ret)
        THEN TableChanged /\ Displays(slast.events) = 0
        ELSE ~TableChanged /\ Displays(slast.events) = 1

\* The rows of the table of online users that name user, and Unique: no
\* two rows name the same user.
Entries(table, user) == {i \in 1..Len(table) : table[i].user = user}
Unique(table) ==
    \A i, j \in 1..Len(table) : table[i].user = table[j].user => i = j
Offline == JInt(3)
\* The last pass decoded a status-change event, and Redelivered: the pass
\* before it had decoded the same event.
StatusEvent == Decoded /\ IsStatusChange(Got.ret)
Redelivered ==
    /\ StatusEvent
    /\ slast.prev.op = "receive"
    /\ slast.prev.st = "ok"
    /\ slast.prev.inbound = slast.inbound

\* C23: the table of online users holds at most one entry per username
\* after any received status changes; the same (user, status) event applied
\* twice leaves exactly one entry for that user, and its second application
\* emits no further notification.
C23_PresenceUniqueIdempotent ==
    /\ Unique(slast.after.table)
    /\ Redelivered /\ Got.ret.primarykey # Offline =>
          /\ Cardinality(Entries(slast.after.table, Got.ret.username)) = 1
          /\ Displays(slast.events) = 0

\* The last pass decoded a status change to "Offline" (index 3 of
\* usertbl_sel_values, as _action_status_combo sends it).
OfflineEvent == StatusEvent /\ Got.ret.primarykey = Offline

\* C24: a received status change to Offline removes the user's entry from
\* the table of online users (no row names the user afterwards) and gives
\* the "gone offline" line to the display sink.
C24_OfflineRemovesAndNotifies ==
    OfflineEvent =>
        /\ Entries(slast.after.table, Got.ret.username) = {}
        /\ Has(slast.events, "display", "gone offline")

\* C25: a connection that was closed and removed from self.connections
\* never re-enters the list, and the server never again reads from it,
\* sends to it or disconnects it, not even in the loop iteration in which a
\* failed broadcast removed it while it was still in the ready list.
C25_NoUseAfterRemoval ==
    /\ \A c \in closed : ~InList(connections, c)
    /\ last.op \notin {"none", "accept"} => Registered(last)
    /\ SentTo(last) \subseteq Clients(last.pre)

\* The last handler made a socket call on sock.
UsesSocket(events, sock) ==
    \E i \in 1..Len(events) :
        /\ events[i].sock = sock
        /\ events[i].ev \in {"connect", "send", "shutdown", "recv", "close"}

\* C26: in the GUI client, while the message loop of _im_exchange waits on
\* or reads the socket in one thread, no listener running in another thread
\* (Send button, status combo, stop_session, restart_session) reads from,
\* writes to or closes that socket.
C26_SocketOneContext ==
    /\ session.kind = "gui"
    /\ slast.before.where = "loop"
    /\ slast.op # "receive"
    /\ slast.by # slast.before.ctx
    => ~UsesSocket(slast.events, slast.before.client)

\* The last pass of the message loop got status 3 from receivemsg: the
\* server closed the connection.
ServerClosed ==
    /\ slast.op = "receive"
    /\ slast.before.sock = "connected"
    /\ Got.st = "return"
    /\ Got.ret.ret_code = 3

\* C27: when receivemsg reports that the server closed the connection
\* (status 3), the GUI session tears its connection down and is no longer
\* running, so the message loop ends.
C27_ServerCloseEndsSession ==
    ServerClosed =>
        /\ ~slast.after.fields.is_running
        /\ slast.after.fields.connections = << >>
        /\ slast.after.where # "loop"

\* C28: the departure notice the server broadcasts when a connection is
\* lost carries the address of that connection, not the address of the
\* client accepted last.
C28_DepartureNamesDeparted ==
    last.op = "departure" =>
        \A i \in 1..Len(last.sends) :
            last.sends[i].frame = ServerSendmsg(DepartureMsg(Addr(last.sock)))

\* C29: in the GUI client, after any completed socket_connect, stop_session
\* or restart_session, self.connections holds at most one socket, and it
\* holds the current client socket exactly when is_running is true.
C29_ConnectionListMatchesRunning ==
    /\ session.kind = "gui"
    /\ slast.op \in {"connect", "stop", "restart"}
    /\ slast.st = "ok"
    => /\ Len(session.connections) <= 1
       /\ session.is_running <=> session.connections = << session.client >>

\* C29's case: a running session is restarted, the old socket goes and the
\* new one is the only entry of the list.
C29_Witness ==
    /\ session.kind = "gui"
    /\ slast.op = "restart"
    /\ slast.st = "ok"
    /\ slast.before.fields.connections = << slast.before.client >>
    /\ session.client # slast.before.client
    /\ session.is_running
    /\ session.connections = << session.client >>

\* What the server does with a frame it reads from connection 1 while
\* connection 2 is registered as well, every send succeeding.
ServerTakes(frame) ==
    ClientEvent(<< server_socket, 1, 2 >>, {}, 2, 1, Whole(frame), {})

\* C30: the GUI client and the server agree on the encoding of the message
\* kind: the server takes every user message that the GUI client's sendmsg
\* emits for a user message and sends it to the other connections, and
\* takes every service message it emits (status change, shutdown) for a
\* service message.
C30_OneKindEncoding ==
    session.kind = "gui" =>
        \A k \in At({"send"}) :
            LET frame == slast.events[k].frame
                type == SentObj(frame).obj[K.type]
                t == ServerTakes(frame)
            IN  /\ type = JInt(0) =>
                      /\ t.op = "usrmsg"
                      /\ t.sends = << [to |-> 2, frame |-> frame] >>
                /\ type = JInt(1) => t.op \in {"shutdown", "status", "unknown"}
=========================================================================
